---- MODULE Spec2Model ----
(***************************************************************************)
(* The ghost-buses notebooks: schedule resolution and scheduled-trip       *)
(* aggregation (data_analysis/notebooks/static_gtfs_analysis.ipynb), the   *)
(* daily aggregation of scraped vehicle data and the comparison of         *)
(* realtime with scheduled trips (rt_daily_aggregations.ipynb).  Each      *)
(* notebook has its own specification: Spec, SpecRT, SpecCmp.  SpecRuns    *)
(* runs the body of the daily loop once per date, request by request;      *)
(* SpecWrite runs the two notebooks that write under BUCKET_TYPE.          *)
(*                                                                         *)
(* A pandas DataFrame is modelled as a bag of rows: a function from row    *)
(* records to positive multiplicities.  No operation of the notebook reads *)
(* the row order (merges, filters, drop_duplicates, groupby-count), so the *)
(* order is abstracted and the multiplicity of equal rows is kept.  A NaN  *)
(* cell is modelled as a column that is absent from the row record.        *)
(*                                                                         *)
(* A calendar date string 'YYYYMMDD' is the number YYYYMMDD; a parsed date *)
(* (pendulum / datetime64) is the day of the year 2022, 1 = 2022-01-01.    *)
(* A time-of-day string is a tuple of one-character strings.               *)
(***************************************************************************)
EXTENDS Integers, Sequences, FiniteSets, Bags, TLC

VARIABLES
    pc,                \* position in the notebook: which cell runs next
    calendar,          \* data.calendar        (calendar.txt)
    calendar_dates,    \* data.calendar_dates  (calendar_dates.txt)
    trips,             \* data.trips           (trips.txt)
    stop_times,        \* data.stop_times      (stop_times.txt)
    actual_service,    \* make_trip_summary: merged calendar table with the service_happened flag
    trip_summary,      \* result of make_trip_summary
    route_daily_hourly_summary,      \* summarize_and_save: (date, route_id, hour) -> trip_count
    route_dir_daily_hourly_summary,  \* summarize_and_save: (date, route_id, direction, hour) -> trip_count
    saved,             \* names of the objects written to storage
    namelist,          \* gtfs_zipfile.namelist(): the files of the feed archive
    loaded             \* the attributes of data that GTFSFeed.__init__ has set

\* rt_daily_aggregations.ipynb, the daily aggregation of the scraped vehicle data
VARIABLES
    rt_pc,             \* position in the notebook: "loop" inside the for-loop over date_range
    rt_day,            \* index in date_range of the day the loop handles next
    bus_data,          \* the scraped objects bus_data/{date}...: key -> JSON body
    bucket,            \* the objects the loop has put: [folder, date] -> table
    day_pc,            \* loop bodies run per date: index in date_range -> position in the body
    day_tables         \* loop bodies run per date: the data and errors the body has parsed

\* rt_daily_aggregations.ipynb, the comparison of realtime and scheduled trips
VARIABLES
    cmp_pc,            \* position in the notebook: "feeds", "combine", "save", "done", "raised"
    feed_ix,           \* index in schedule_feeds of the feed the loop handles next
    schedule_feeds,    \* the configured list of schedule versions and their periods
    bucket_type,       \* BUCKET_TYPE of the notebook run
    schedule_files,    \* schedule_route_daily_hourly_summary_v{version}.csv: version -> table
    hourly_files,      \* bus_hourly_summary_v2/{date}.csv: date -> table
    comparison_files,  \* stored per-feed and combined comparison csv files: name -> table
    compare_results,   \* per feed handled: compare_daily_by_rte and compare_by_day_type
    combined,          \* the per-feed comparison files read back, appended
    summary            \* the combined summary

schedvars == <<pc, calendar, calendar_dates, trips, stop_times, actual_service,
               trip_summary, route_daily_hourly_summary, route_dir_daily_hourly_summary, saved,
               namelist, loaded>>

rtvars == <<rt_pc, rt_day, bus_data, bucket, day_pc, day_tables>>

cmpvars == <<cmp_pc, feed_ix, schedule_feeds, bucket_type, schedule_files, hourly_files,
             comparison_files, compare_results, combined, summary>>

vars == <<schedvars, rtvars, cmpvars>>

----------------------------------------------------------------------------
(* Bounds of the model *)

\* dates of the input feed are 2022-06-06 (a Monday) .. 2022-06-06 + MaxDate
MaxDate == 1
\* rows of calendar.txt plus rows of calendar_dates.txt
MaxCalRows == 3
\* rows of trips.txt plus rows of stop_times.txt
MaxTripRows == 3

----------------------------------------------------------------------------
(* Bags of rows *)

EmptyTable == EmptyBag

RECURSIVE SumCounts(_, _)
SumCounts(B, S) ==
    IF S = {} THEN 0
    ELSE LET x == CHOOSE y \in S : TRUE IN B[x] + SumCounts(B, S \ {x})

\* number of rows of a table
NRows(B) == SumCounts(B, DOMAIN B)

\* rows of B that satisfy P (boolean indexing df[mask])
Filter(B, P(_)) == [x \in {y \in DOMAIN B : P(y)} |-> B[x]]

\* the table whose rows are F(row), equal results adding their multiplicities
MapRows(B, F(_)) ==
    LET img == {F(x) : x \in DOMAIN B}
    IN  [y \in img |-> SumCounts(B, {x \in DOMAIN B : F(x) = y})]

\* rows of a join: every matching pair of rows, combined
JoinRows(A, B, Match(_, _), Combine(_, _)) ==
    LET pairs == {p \in (DOMAIN A) \X (DOMAIN B) : Match(p[1], p[2])}
        img   == {Combine(p[1], p[2]) : p \in pairs}
        cnt(y) == LET ps == {p \in pairs : Combine(p[1], p[2]) = y}
                      PB == [p \in ps |-> A[p[1]] * B[p[2]]]
                  IN  SumCounts(PB, ps)
    IN  [y \in img |-> cnt(y)]

\* the bag holding the rows of sequence s
SeqToBag(s) ==
    [x \in {s[i] : i \in DOMAIN s} |-> Cardinality({i \in DOMAIN s : s[i] = x})]

\* every table of at most k rows drawn from the row set R
TablesUpTo(R, k) == {SeqToBag(s) : s \in UNION {[1..n -> R] : n \in 0..k}}

isnull(row, col) == col \notin DOMAIN row
notnull(row, col) == col \in DOMAIN row

----------------------------------------------------------------------------
(* Dates *)

DaysBeforeMonth == <<0, 31, 59, 90, 120, 151, 181, 212, 243, 273, 304, 334>>

\* pendulum.from_format(x, 'YYYYMMDD') for a date of 2022: the day of the year
from_format(x) == DaysBeforeMonth[(x \div 100) % 100] + (x % 100)

\* Series.dt.dayofweek: Monday = 0 .. Sunday = 6 (2022-01-01 was a Saturday)
dayofweek(d) == (d + 4) % 7

\* pd.date_range(a, b): every day from a to b
date_range(a, b) == a..b

----------------------------------------------------------------------------
(* Time-of-day strings and get_hour *)

Digits == <<"0", "1", "2", "3", "4", "5", "6", "7", "8", "9">>

IsDigit(c) == \E i \in DOMAIN Digits : Digits[i] = c

DigitVal(c) == (CHOOSE i \in DOMAIN Digits : Digits[i] = c) - 1

\* s.split(':'): the pieces of s between the colons
RECURSIVE split(_)
split(s) ==
    IF \A i \in DOMAIN s : s[i] # ":" THEN <<s>>
    ELSE LET k == CHOOSE i \in DOMAIN s :
                      s[i] = ":" /\ \A j \in 1..(i - 1) : s[j] # ":"
         IN  <<SubSeq(s, 1, k - 1)>> \o split(SubSeq(s, k + 1, Len(s)))

\* int(p) accepts a non-empty run of decimal digits
IsInt(p) == Len(p) > 0 /\ \A i \in DOMAIN p : IsDigit(p[i])

RECURSIVE int(_)
int(p) ==
    IF Len(p) = 0 THEN 0
    ELSE 10 * int(SubSeq(p, 1, Len(p) - 1)) + DigitVal(p[Len(p)])

\* get_hour raises (AssertionError, ValueError) instead of returning
get_hour_raises(s) == Len(split(s)) # 3 \/ ~IsInt(split(s)[1])

\* variant: the hour as written, without the reduction of hours >= 24
get_hour_as_written(s) == int(split(s)[1])

get_hour(s) ==
    LET parts == split(s)
        hour  == int(parts[1])
    IN  IF hour >= 24 THEN hour - 24 ELSE hour

\* the characters of a time-of-day string
T0510 == <<"0", "5", ":", "1", "0", ":", "0", "0">>
T0540 == <<"0", "5", ":", "4", "0", ":", "0", "0">>
T0605 == <<"0", "6", ":", "0", "5", ":", "0", "0">>
T2530 == <<"2", "5", ":", "3", "0", ":", "0", "0">>
T4900 == <<"4", "9", ":", "0", "0", ":", "0", "0">>
TBad  == <<"0", "5", "1", "0">>

TimeStrings == {T0510, T0540, T0605, T2530, T4900, TBad}

----------------------------------------------------------------------------
(* Input feeds *)

Services == {"S", "T"}
TripIds == {"t1", "t2"}
RouteIds == {"22", "9"}
Directions == {"North"}

\* the dates the feed's tables may name
FeedDates == {20220606 + i : i \in 0..MaxDate}

DayColumns == <<"monday", "tuesday", "wednesday", "thursday", "friday", "saturday", "sunday">>

\* weekday flags of a calendar row: no day, or Mondays only
AllOff == [c \in {DayColumns[i] : i \in DOMAIN DayColumns} |-> "0"]
MonOnly == [AllOff EXCEPT !["monday"] = "1"]
FlagPatterns == {AllOff, MonOnly}

CalendarRow(s, f, a, b) ==
    [service_id |-> s, monday |-> f["monday"], tuesday |-> f["tuesday"],
     wednesday |-> f["wednesday"], thursday |-> f["thursday"], friday |-> f["friday"],
     saturday |-> f["saturday"], sunday |-> f["sunday"], start_date |-> a, end_date |-> b]

\* the validity windows: the first day only, or the last day only
Windows == {<<20220606, 20220606>>, <<20220606 + MaxDate, 20220606 + MaxDate>>}

CalendarRows == {CalendarRow(s, f, w[1], w[2]) : s \in Services, f \in FlagPatterns, w \in Windows}

CalendarDatesRows == [service_id : Services, date : FeedDates, exception_type : {"1", "2"}]

TripRow(t, r, s, d) == [trip_id |-> t, route_id |-> r, service_id |-> s, direction |-> d]

TripsRows == {TripRow(t, r, s, d) : t \in TripIds, r \in RouteIds, s \in Services, d \in Directions}

\* the notebook checks that no dwell crosses an hour: departure = arrival
StopTimeRow(t, a) == [trip_id |-> t, arrival_time |-> a, departure_time |-> a]

StopTimesRows == {StopTimeRow(t, a) : t \in TripIds, a \in TimeStrings}

----------------------------------------------------------------------------
(* format_dates_hours *)

\* the apply() over stop_times raises when get_hour raises on some row
format_raises(st) ==
    \E r \in DOMAIN st : get_hour_raises(r.arrival_time) \/ get_hour_raises(r.departure_time)

format_calendar(cal) ==
    MapRows(cal, LAMBDA r : r @@ [start_date_dt |-> from_format(r.start_date),
                                  end_date_dt |-> from_format(r.end_date)])

format_calendar_dates(cd) ==
    MapRows(cd, LAMBDA r : r @@ [date_dt |-> from_format(r.date)])

format_stop_times(st) ==
    MapRows(st, LAMBDA r : r @@ [arrival_hour |-> get_hour(r.arrival_time),
                                 departure_hour |-> get_hour(r.departure_time)])

----------------------------------------------------------------------------
(* make_trip_summary *)

SetMin(S) == CHOOSE x \in S : \A y \in S : x <= y
SetMax(S) == CHOOSE x \in S : \A y \in S : x >= y

\* one row per day between the earliest start and the latest end of calendar
calendar_date_range(cal) ==
    LET days == date_range(SetMin({r.start_date_dt : r \in DOMAIN cal}),
                           SetMax({r.end_date_dt : r \in DOMAIN cal}))
    IN  [r \in {[raw_date |-> d] : d \in days} |-> 1]

\* cross join of the days with calendar, plus the day of week of raw_date
calendar_cross(cal) ==
    JoinRows(calendar_date_range(cal), cal,
             LAMBDA d, c : TRUE,
             LAMBDA d, c : c @@ [raw_date |-> d.raw_date, dayofweek |-> dayofweek(d.raw_date)])

\* the map of the calendar columns to pandas day numbers
cal_daynum(name) == (CHOOSE i \in DOMAIN DayColumns : DayColumns[i] = name) - 1

\* melt: one row per (cross row, day column), the flag in cal_val
melt(cross) ==
    JoinRows(cross, [c \in {[name |-> DayColumns[i]] : i \in DOMAIN DayColumns} |-> 1],
             LAMBDA r, c : TRUE,
             LAMBDA r, c : [raw_date |-> r.raw_date, start_date_dt |-> r.start_date_dt,
                            end_date_dt |-> r.end_date_dt, start_date |-> r.start_date,
                            end_date |-> r.end_date, service_id |-> r.service_id,
                            dayofweek |-> r.dayofweek, cal_dayofweek |-> c.name,
                            cal_val |-> r[c.name], cal_daynum |-> cal_daynum(c.name)])

\* the rows that "work": the day column of the date, inside the validity window
rows_that_work(r) ==
    /\ r.dayofweek = r.cal_daynum
    /\ r.start_date_dt <= r.raw_date
    /\ r.end_date_dt >= r.raw_date

pattern_service(cal) == Filter(melt(calendar_cross(cal)), rows_that_work)

\* variant: the merge key without the date
on_service_only(l, r) == l.service_id = r.service_id

on_date_and_service(l, r) == l.raw_date = r.date_dt /\ l.service_id = r.service_id

\* outer merge on (raw_date, service_id) = (date_dt, service_id)
merge_calendar_dates(left, cd) ==
    LET both == JoinRows(left, cd, on_date_and_service,
                         LAMBDA l, r : l @@ [date |-> r.date, date_dt |-> r.date_dt,
                                             exception_type |-> r.exception_type])
        left_only  == Filter(left, LAMBDA l : \A r \in DOMAIN cd : ~on_date_and_service(l, r))
        right_only == Filter(cd, LAMBDA r : \A l \in DOMAIN left : ~on_date_and_service(l, r))
    IN  both (+) left_only (+) right_only

\* variant: the flag without the test that no exception row matched
service_happened_ignoring_exception(r) ==
    \/ (notnull(r, "cal_val") /\ r.cal_val = "1")
    \/ (notnull(r, "exception_type") /\ r.exception_type = "1")

\* the service_happened flag of a merged row
service_happened_flag(r) ==
    \/ (notnull(r, "cal_val") /\ r.cal_val = "1" /\ isnull(r, "exception_type"))
    \/ (notnull(r, "exception_type") /\ r.exception_type = "1")

\* variant: raw_date left unfilled
no_fill_raw_date(r) == r

\* raw_date.fillna(date_dt)
fill_raw_date(r) == IF isnull(r, "raw_date") THEN r @@ [raw_date |-> r.date_dt] ELSE r

\* the merged calendar table with service_happened and raw_date filled
make_actual_service(cal, cd) ==
    MapRows(merge_calendar_dates(pattern_service(cal), cd),
            LAMBDA r : fill_raw_date(r @@ [service_happened |-> service_happened_flag(r)]))

service_happened(as) == Filter(as, LAMBDA r : r.service_happened)

\* left merge of A with B on column key
left_merge(A, B, key) ==
    LET both == JoinRows(A, B, LAMBDA a, b : a[key] = b[key], LAMBDA a, b : a @@ b)
        left_only == Filter(A, LAMBDA a : \A b \in DOMAIN B : a[key] # b[key])
    IN  both (+) left_only

trips_happened(tr, as) == left_merge(tr, service_happened(as), "service_id")

\* variant: one row per trip, holding its earliest hour only
trip_first_hour(st) ==
    [r \in {[trip_id |-> x.trip_id,
             arrival_hour |-> SetMin({y.arrival_hour : y \in {z \in DOMAIN st : z.trip_id = x.trip_id}})] :
                x \in DOMAIN st} |-> 1]

\* [['trip_id', 'arrival_hour']].drop_duplicates()
trip_stop_hours(st) ==
    [r \in {[trip_id |-> x.trip_id, arrival_hour |-> x.arrival_hour] : x \in DOMAIN st} |-> 1]

make_trip_summary(tr, st, as) == left_merge(trips_happened(tr, as), trip_stop_hours(st), "trip_id")

----------------------------------------------------------------------------
(* summarize_and_save *)

BUCKET_TYPE == "public"

\* groupby(by)[trip_id].count(): rows with a NaN key are dropped
groupby_count(ts, Key(_), HasKey(_)) ==
    LET rows == {r \in DOMAIN ts : HasKey(r)}
        keys == {Key(r) : r \in rows}
    IN  [k \in keys |-> SumCounts(ts, {r \in rows : Key(r) = k})]

route_key(r) == [date |-> r.raw_date, route_id |-> r.route_id, hour |-> r.arrival_hour]

has_route_key(r) ==
    notnull(r, "raw_date") /\ notnull(r, "route_id") /\ notnull(r, "arrival_hour")

route_dir_key(r) ==
    [date |-> r.raw_date, route_id |-> r.route_id, direction |-> r.direction,
     hour |-> r.arrival_hour]

has_route_dir_key(r) == has_route_key(r) /\ notnull(r, "direction")

----------------------------------------------------------------------------
(* Notebooks that are not running *)

\* static_gtfs_analysis.ipynb is not run
SchedIdle ==
    /\ pc = "idle"
    /\ calendar = EmptyTable /\ calendar_dates = EmptyTable
    /\ trips = EmptyTable /\ stop_times = EmptyTable
    /\ actual_service = EmptyTable /\ trip_summary = EmptyTable
    /\ route_daily_hourly_summary = EmptyTable
    /\ route_dir_daily_hourly_summary = EmptyTable
    /\ saved = {}
    /\ namelist = {} /\ loaded = {}

\* the daily aggregation is not run
RTIdle ==
    /\ rt_pc = "idle" /\ rt_day = 0
    /\ bus_data = EmptyTable /\ bucket = EmptyTable
    /\ day_pc = <<>> /\ day_tables = <<>>

\* the comparison is not run
CmpIdle ==
    /\ cmp_pc = "idle" /\ feed_ix = 0
    /\ schedule_feeds = <<>> /\ bucket_type = BUCKET_TYPE
    /\ schedule_files = EmptyTable /\ hourly_files = EmptyTable
    /\ comparison_files = EmptyTable
    /\ compare_results = <<>> /\ combined = EmptyTable /\ summary = EmptyTable

----------------------------------------------------------------------------
(* The notebook run *)

\* the tables GTFSFeed.__init__ opens inside its try block, in that order
RequiredFiles == <<"stops.txt", "stop_times.txt", "routes.txt", "trips.txt">>

\* the tables it loads when namelist() holds them
OptionalFiles == {"calendar.txt", "calendar_dates.txt", "shapes.txt"}

AllFiles == {RequiredFiles[i] : i \in DOMAIN RequiredFiles} \cup OptionalFiles

\* the attributes set by GTFSFeed.__init__, named by their file: the required
\* tables before the first one that is missing (its KeyError is caught and
\* printed) and the optional tables of the archive
GTFSFeed(names) ==
    {RequiredFiles[i] : i \in {j \in DOMAIN RequiredFiles :
                                  \A k \in 1..j : RequiredFiles[k] \in names}}
    \cup (OptionalFiles \cap names)

\* a feed that varies the calendar tables, with one trip per service
CalendarFeed ==
    /\ \E c \in TablesUpTo(CalendarRows, MaxCalRows) :
          /\ calendar = c
          /\ calendar_dates \in TablesUpTo(CalendarDatesRows, MaxCalRows - NRows(c))
    /\ trips = SeqToBag(<<TripRow("t1", "22", "S", "North"), TripRow("t2", "22", "T", "North")>>)
    /\ stop_times = SeqToBag(<<StopTimeRow("t1", T0510), StopTimeRow("t2", T2530)>>)

\* a feed that varies the trip tables: S runs on Mondays (its calendar row is
\* there once or twice) and T is added on the last day
TripFeed ==
    /\ calendar \in {SeqToBag(<<CalendarRow("S", MonOnly, 20220606, 20220606)>>),
                     SeqToBag(<<CalendarRow("S", MonOnly, 20220606, 20220606),
                                CalendarRow("S", MonOnly, 20220606, 20220606)>>)}
    /\ calendar_dates = SeqToBag(<<[service_id |-> "T", date |-> 20220606 + MaxDate,
                                    exception_type |-> "1"]>>)
    /\ \E tr \in TablesUpTo(TripsRows, MaxTripRows) :
          /\ trips = tr
          /\ stop_times \in TablesUpTo(StopTimesRows, MaxTripRows - NRows(tr))

\* an archive that lacks one or two of its files; the tables of the files it
\* has are fixed, an attribute that is not set is shown as an empty table
PartialFeed ==
    /\ \E missing \in SUBSET AllFiles :
          Cardinality(missing) \in {1, 2} /\ namelist = AllFiles \ missing
    /\ calendar = IF "calendar.txt" \in GTFSFeed(namelist)
                  THEN SeqToBag(<<CalendarRow("S", MonOnly, 20220606, 20220606)>>)
                  ELSE EmptyTable
    /\ calendar_dates = IF "calendar_dates.txt" \in GTFSFeed(namelist)
                        THEN SeqToBag(<<[service_id |-> "T", date |-> 20220606 + MaxDate,
                                         exception_type |-> "1"]>>)
                        ELSE EmptyTable
    /\ trips = IF "trips.txt" \in GTFSFeed(namelist)
               THEN SeqToBag(<<TripRow("t1", "22", "S", "North"),
                               TripRow("t2", "22", "T", "North")>>)
               ELSE EmptyTable
    /\ stop_times = IF "stop_times.txt" \in GTFSFeed(namelist)
                    THEN SeqToBag(<<StopTimeRow("t1", T0510), StopTimeRow("t2", T2530)>>)
                    ELSE EmptyTable

Init ==
    /\ pc = "format_dates_hours"
    /\ \/ (CalendarFeed \/ TripFeed) /\ namelist = AllFiles
       \/ PartialFeed
    /\ loaded = GTFSFeed(namelist)
    /\ actual_service = EmptyTable
    /\ trip_summary = EmptyTable
    /\ route_daily_hourly_summary = EmptyTable
    /\ route_dir_daily_hourly_summary = EmptyTable
    /\ saved = {}
    /\ RTIdle /\ CmpIdle

\* data = format_dates_hours(data)
FormatDatesHours ==
    /\ pc = "format_dates_hours"
    /\ IF "calendar.txt" \notin loaded
       THEN \* data.calendar raises AttributeError
            /\ pc' = "raised"
            /\ UNCHANGED <<calendar, calendar_dates, stop_times>>
       ELSE IF "calendar_dates.txt" \notin loaded
       THEN \* data.calendar_dates raises AttributeError
            /\ pc' = "raised"
            /\ calendar' = format_calendar(calendar)
            /\ UNCHANGED <<calendar_dates, stop_times>>
       ELSE /\ calendar' = format_calendar(calendar)
            /\ calendar_dates' = format_calendar_dates(calendar_dates)
            /\ IF "stop_times.txt" \notin loaded \/ format_raises(stop_times)
               THEN /\ pc' = "raised"
                    /\ UNCHANGED stop_times
               ELSE /\ pc' = "make_trip_summary"
                    /\ stop_times' = format_stop_times(stop_times)
    /\ UNCHANGED <<trips, actual_service, trip_summary, route_daily_hourly_summary,
                   route_dir_daily_hourly_summary, saved, namelist, loaded>>
    /\ UNCHANGED <<rtvars, cmpvars>>

\* trip_summary = make_trip_summary(data)
MakeTripSummary ==
    /\ pc = "make_trip_summary"
    /\ IF DOMAIN calendar = {} \/ "trips.txt" \notin loaded
       THEN \* min() of an empty column raises ValueError, data.trips AttributeError
            /\ pc' = "raised"
            /\ UNCHANGED <<actual_service, trip_summary>>
       ELSE /\ pc' = "summarize_and_save"
            /\ actual_service' = make_actual_service(calendar, calendar_dates)
            /\ trip_summary' = make_trip_summary(trips, stop_times, actual_service')
    /\ UNCHANGED <<calendar, calendar_dates, trips, stop_times, route_daily_hourly_summary,
                   route_dir_daily_hourly_summary, saved, namelist, loaded>>
    /\ UNCHANGED <<rtvars, cmpvars>>

\* summarize_and_save(trip_summary).  The first `if BUCKET_TYPE == "private"` of the
\* cell is written without its colon; it is read as the guarded write of the second one.
SummarizeAndSave ==
    /\ pc = "summarize_and_save"
    /\ pc' = "done"
    /\ route_daily_hourly_summary' = groupby_count(trip_summary, route_key, has_route_key)
    /\ route_dir_daily_hourly_summary' =
           groupby_count(trip_summary, route_dir_key, has_route_dir_key)
    /\ saved' = IF bucket_type = "private"
                THEN saved \cup {"schedule_route_daily_hourly_summary",
                                 "schedule_route_dir_daily_hourly_summary"}
                ELSE saved
    /\ UNCHANGED <<calendar, calendar_dates, trips, stop_times, actual_service, trip_summary,
                   namelist, loaded>>
    /\ UNCHANGED <<rtvars, cmpvars>>

Next == FormatDatesHours \/ MakeTripSummary \/ SummarizeAndSave

Spec == Init /\ [][Next]_vars

----------------------------------------------------------------------------
(* Calendar Resolver: properties of the table built by make_trip_summary *)

\* make_trip_summary has returned
Resolved == pc \in {"summarize_and_save", "done"}

\* the days the feed's tables may name
Days == {from_format(x) : x \in FeedDates}

\* the rows of the resolver output (service_happened) for service s on day d
ActiveRows(s, d) ==
    {r \in DOMAIN service_happened(actual_service) :
        r.service_id = s /\ notnull(r, "raw_date") /\ r.raw_date = d}

ActiveOn(s, d) == ActiveRows(s, d) # {}

\* the column of calendar.txt for the day of week of day d
DayColumnOf(d) == DayColumns[dayofweek(d) + 1]

\* some calendar row of s has d inside its window
InWindow(s, d) ==
    \E c \in DOMAIN calendar :
        c.service_id = s /\ from_format(c.start_date) <= d /\ d <= from_format(c.end_date)

\* some calendar row of s has d inside its window and the flag of d's weekday set
PatternActive(s, d) ==
    \E c \in DOMAIN calendar :
        /\ c.service_id = s
        /\ from_format(c.start_date) <= d /\ d <= from_format(c.end_date)
        /\ c[DayColumnOf(d)] = "1"

\* the calendar_dates rows for (s, d)
ExceptionRows(s, d) ==
    {e \in DOMAIN calendar_dates : e.service_id = s /\ from_format(e.date) = d}

Added(s, d) == \E e \in ExceptionRows(s, d) : e.exception_type = "1"
Removed(s, d) == \E e \in ExceptionRows(s, d) : e.exception_type = "2"

\* C1: (D, S) is marked service_happened if and only if S's weekly pattern is
\* active on D (window and weekday flag) with no calendar_dates row for (S, D),
\* or a calendar_dates row for (S, D) has exception_type 1.
C1_ActiveIffPatternOrAdded ==
    Resolved =>
        \A s \in Services, d \in Days :
            ActiveOn(s, d) <=>
                \/ (PatternActive(s, d) /\ ExceptionRows(s, d) = {})
                \/ Added(s, d)

\* both cases of C1 in one resolved feed: a service active by its pattern alone
\* and a service active by an added exception without an active pattern
C1_Witness ==
    /\ Resolved
    /\ \E s \in Services, d \in Days :
          PatternActive(s, d) /\ ExceptionRows(s, d) = {} /\ ActiveOn(s, d)
    /\ \E s \in Services, d \in Days :
          ~PatternActive(s, d) /\ Added(s, d) /\ ActiveOn(s, d)

AllFlagsOff(s) ==
    \A c \in DOMAIN calendar :
        c.service_id = s => \A i \in DOMAIN DayColumns : c[DayColumns[i]] = "0"

\* calendar_dates holds exactly one row for s, and it adds s on day d
OnlyExceptionIsAdded(s, d) ==
    /\ NRows(Filter(calendar_dates, LAMBDA e : e.service_id = s)) = 1
    /\ Added(s, d)

\* C3: a service whose weekday flags are all inactive and whose only
\* calendar_dates row adds it on D is active on D and on no other date.
C3_AddedOnlyOnItsDate ==
    Resolved =>
        \A s \in Services, d \in Days :
            (AllFlagsOff(s) /\ OnlyExceptionIsAdded(s, d)) =>
                /\ ActiveOn(s, d)
                /\ \A r \in DOMAIN service_happened(actual_service) :
                      r.service_id = s => (notnull(r, "raw_date") /\ r.raw_date = d)

\* an all-off service with a calendar row in the date range, added on another day
C3_Witness ==
    /\ Resolved
    /\ \E s \in Services, d \in Days :
          /\ AllFlagsOff(s) /\ OnlyExceptionIsAdded(s, d) /\ ActiveOn(s, d)
          /\ \E c \in DOMAIN calendar : c.service_id = s
          /\ \E d2 \in Days : d2 # d /\ InWindow(s, d2)

\* the resolver rows that come from the calendar_dates row e
RowsFromException(e) ==
    Filter(service_happened(actual_service),
           LAMBDA r : /\ r.service_id = e.service_id
                      /\ notnull(r, "date") /\ r.date = e.date
                      /\ notnull(r, "exception_type") /\ r.exception_type = e.exception_type)

\* the buckets of the route-level summary of a finished run
Counted(d, route, h) ==
    LET k == [date |-> d, route_id |-> route, hour |-> h]
    IN  k \in DOMAIN route_daily_hourly_summary /\ route_daily_hourly_summary[k] >= 1

\* C4: every added row (S, D) of calendar_dates that matches no pattern row
\* (D outside every window of S, D outside the calendar's date range or S without
\* a calendar row) yields exactly one active record, its date is D, and the
\* trips of S are counted on D.
C4_AddedWithoutPatternRow ==
    Resolved =>
        \A e \in DOMAIN calendar_dates :
            (e.exception_type = "1" /\ ~InWindow(e.service_id, from_format(e.date))) =>
                /\ NRows(RowsFromException(e)) = calendar_dates[e]
                /\ \A r \in DOMAIN RowsFromException(e) :
                      notnull(r, "raw_date") /\ r.raw_date = from_format(e.date)
                /\ \A r \in ActiveRows(e.service_id, from_format(e.date)) :
                      r \in DOMAIN RowsFromException(e)
                /\ pc = "done" =>
                      \A t \in DOMAIN trips, x \in DOMAIN stop_times :
                          (t.service_id = e.service_id /\ x.trip_id = t.trip_id) =>
                              Counted(from_format(e.date), t.route_id, x.arrival_hour)

\* a service without any calendar row, added on a day after the calendar's last
\* day, whose trip is counted on that day
C4_Witness ==
    /\ pc = "done"
    /\ \E e \in DOMAIN calendar_dates :
          /\ e.exception_type = "1" /\ calendar_dates[e] = 1
          /\ \A c \in DOMAIN calendar :
                c.service_id # e.service_id /\ from_format(c.end_date) < from_format(e.date)
          /\ NRows(RowsFromException(e)) = 1
          /\ \E t \in DOMAIN trips, x \in DOMAIN stop_times :
                /\ t.service_id = e.service_id /\ x.trip_id = t.trip_id
                /\ Counted(from_format(e.date), t.route_id, x.arrival_hour)

\* the rows of the resolved table for service s on day d, active or not
ResolvedRows(s, d) ==
    Filter(actual_service,
           LAMBDA r : r.service_id = s /\ notnull(r, "raw_date") /\ r.raw_date = d)

\* C5: for any calendar and calendar_dates input the resolved table holds at
\* most one row per (date, service_id), so never an active and an inactive row
\* for the same pair.
C5_AtMostOneResolution ==
    Resolved =>
        \A s \in Services, d \in Days :
            /\ NRows(ResolvedRows(s, d)) <= 1
            /\ ~(\E r1, r2 \in DOMAIN ResolvedRows(s, d) :
                    r1.service_happened /\ ~r2.service_happened)

----------------------------------------------------------------------------
(* Scheduled-Trip Aggregator: properties of the route-level summary *)

\* the trip_count of a bucket, 0 when the summary has no row for it
BucketCount(d, route, h) ==
    LET k == [date |-> d, route_id |-> route, hour |-> h]
    IN  IF k \in DOMAIN route_daily_hourly_summary THEN route_daily_hourly_summary[k] ELSE 0

\* the arrival hours of the formatted stop_times
StopHours == {x.arrival_hour : x \in DOMAIN stop_times}

\* the trip ids of a route whose service is active on d and that stop in hour h
TripsInBucket(d, route, h) ==
    {t.trip_id : t \in {u \in DOMAIN trips :
        /\ u.route_id = route
        /\ ActiveOn(u.service_id, d)
        /\ \E x \in DOMAIN stop_times : x.trip_id = u.trip_id /\ x.arrival_hour = h}}

\* C6: the trip_count of every (date, route_id, hour) is the number of distinct
\* trip_ids of the route that are active on the date and stop in the hour,
\* however many rows the stop_times or the resolved service table hold for them.
C6_CountsDistinctTrips ==
    pc = "done" =>
        /\ \A d \in Days, route \in RouteIds, h \in StopHours :
              BucketCount(d, route, h) = Cardinality(TripsInBucket(d, route, h))
        /\ \A k \in DOMAIN route_daily_hourly_summary :
              k.date \in Days /\ k.route_id \in RouteIds /\ k.hour \in StopHours

\* C7: a trip whose service is active on D is counted in the bucket
\* (D, route, h) of every hour h in which it has a stop_time.
C7_CountedInEveryHour ==
    pc = "done" =>
        \A t \in DOMAIN trips, x \in DOMAIN stop_times, d \in Days :
            (x.trip_id = t.trip_id /\ ActiveOn(t.service_id, d)) =>
                Counted(d, t.route_id, x.arrival_hour)

\* an active trip with stop_times in two different hours, counted in both
C7_Witness ==
    /\ pc = "done"
    /\ \E t \in DOMAIN trips, x, y \in DOMAIN stop_times, d \in Days :
          /\ x.trip_id = t.trip_id /\ y.trip_id = t.trip_id
          /\ x.arrival_hour # y.arrival_hour
          /\ ActiveOn(t.service_id, d)
          /\ Counted(d, t.route_id, x.arrival_hour) /\ Counted(d, t.route_id, y.arrival_hour)

\* C8: a stop_time "25:30:00" of a trip active on D has hour 1 and is counted
\* in the bucket (D, route, 1); every bucket is keyed by a date on which a trip
\* of the route with a stop in that hour is active, so the row does not move to
\* the day after D.
C8_After24CountedOnServiceDate ==
    /\ pc \in {"make_trip_summary", "summarize_and_save", "done"} =>
          \A x \in DOMAIN stop_times : x.arrival_time = T2530 => x.arrival_hour = 1
    /\ pc = "done" =>
          /\ \A t \in DOMAIN trips, x \in DOMAIN stop_times, d \in Days :
                (x.trip_id = t.trip_id /\ x.arrival_time = T2530 /\ ActiveOn(t.service_id, d)) =>
                    Counted(d, t.route_id, 1)
          /\ \A k \in DOMAIN route_daily_hourly_summary :
                TripsInBucket(k.date, k.route_id, k.hour) # {}

\* a "25:30:00" stop of a trip active on the Monday only: counted in hour 1 of
\* the Monday, with no bucket on the Tuesday
C8_Witness ==
    /\ pc = "done"
    /\ \E t \in DOMAIN trips, x \in DOMAIN stop_times, d \in Days :
          /\ x.trip_id = t.trip_id /\ x.arrival_time = T2530
          /\ ActiveOn(t.service_id, d) /\ ~ActiveOn(t.service_id, d + 1)
          /\ Counted(d, t.route_id, 1)
          /\ BucketCount(d + 1, t.route_id, 1) = 0

\* C9: get_hour returns HH modulo 24 for every well-formed "HH:MM:SS", so every
\* arrival_hour lies in 0..23.
C9_HourModulo24 ==
    pc \in {"make_trip_summary", "summarize_and_save", "done"} =>
        \A x \in DOMAIN stop_times :
            /\ x.arrival_hour = int(split(x.arrival_time)[1]) % 24
            /\ x.arrival_hour \in 0..23

\* the (trip_id, hour) pairs of a route's trips that are active on d
TripHoursOn(d, route) ==
    {<<t.trip_id, x.arrival_hour>> : t \in {u \in DOMAIN trips :
            u.route_id = route /\ ActiveOn(u.service_id, d)},
        x \in DOMAIN stop_times} \cap
    {<<x.trip_id, x.arrival_hour>> : x \in DOMAIN stop_times}

\* the sum over the hours of the route-level trip_count of (d, route)
DailyTotal(d, route) ==
    SumCounts(route_daily_hourly_summary,
              {k \in DOMAIN route_daily_hourly_summary : k.date = d /\ k.route_id = route})

\* C10: for every (date, route) the trip_counts of all hours add up to the
\* number of distinct (trip_id, hour) pairs of the route's trips active that date.
C10_DailyTotalIsTripHours ==
    pc = "done" =>
        \A d \in Days, route \in RouteIds :
            DailyTotal(d, route) = Cardinality(TripHoursOn(d, route))

\* minutes since midnight of the service day, as written in arrival_time
RawMinutes(x) == 60 * int(split(x.arrival_time)[1]) + int(split(x.arrival_time)[2])

\* the hour of the first stop-time of trip tid: the stop with the earliest arrival
FirstStopHours(tid) ==
    {x.arrival_hour : x \in {y \in DOMAIN stop_times :
        /\ y.trip_id = tid
        /\ \A z \in DOMAIN stop_times : z.trip_id = tid => RawMinutes(y) <= RawMinutes(z)}}

SummaryRowsOf(d, route, h) ==
    [t \in {u \in DOMAIN trips :
            /\ u.route_id = route
            /\ \E x \in DOMAIN stop_times : x.trip_id = u.trip_id /\ x.arrival_hour = h}
        |-> trips[t] * SumCounts(service_happened(actual_service), ActiveRows(t.service_id, d))]

----------------------------------------------------------------------------
(* rt_daily_aggregations.ipynb: daily aggregation of the scraped vehicle data *)

\* vehicle rows of all scraped objects together
MaxPings == 2

\* date_range: start_date and the day after it
rt_date_range == <<20220717, 20220718>>

\* the characters of a tmstmp of the bus tracker
TS_17_2355 == <<"2", "0", "2", "2", "0", "7", "1", "7", " ", "2", "3", ":", "5", "5">>
TS_18_0005 == <<"2", "0", "2", "2", "0", "7", "1", "8", " ", "0", "0", ":", "0", "5">>
\* a tmstmp that carries seconds
TS_18_Sec  == <<"2", "0", "2", "2", "0", "7", "1", "8", " ", "0", "0", ":", "0", "5", ":", "3", "0">>

Tmstmps == {TS_17_2355, TS_18_0005, TS_18_Sec}

\* strptime with format '%Y%m%d %H:%M' accepts the string
tmstmp_matches(s) ==
    /\ Len(s) = 14
    /\ \A i \in {1, 2, 3, 4, 5, 6, 7, 8, 10, 11, 13, 14} : IsDigit(s[i])
    /\ s[9] = " " /\ s[12] = ":"
    /\ int(SubSeq(s, 5, 6)) \in 1..12 /\ int(SubSeq(s, 7, 8)) \in 1..31
    /\ int(SubSeq(s, 10, 11)) < 24 /\ int(SubSeq(s, 13, 14)) < 60

\* pd.to_datetime(tmstmp, format='%Y%m%d %H:%M') with its .dt.date and .dt.hour
data_date(s) == int(SubSeq(s, 1, 8))
data_hour(s) == int(SubSeq(s, 10, 11))

VehicleRow(v, ts, trip) ==
    [vid |-> v, tmstmp |-> ts, rt |-> "22", des |-> "Howard", tatripid |-> trip,
     tablockid |-> "b1"]

VehicleRows == {VehicleRow(v, ts, trip) : v \in {"v1", "v2"}, ts \in Tmstmps, trip \in {"a", "b"}}

ErrorRow == [rt |-> "9", msg |-> "No data found for parameter"]

\* the keys of the scraped objects: two of the first day, one of the second
BatchKeys == {[date |-> rt_date_range[1], n |-> 1], [date |-> rt_date_range[1], n |-> 2],
              [date |-> rt_date_range[2], n |-> 1]}

\* a vehicle row inside the scraped object of key k
Ping(k, r) == [key |-> k, row |-> r]

\* the scraped objects that hold the vehicle rows of pings and an error row in
\* the objects of errkeys
Scraped(pings, errkeys) ==
    [k \in BatchKeys |->
        [vehicle |-> [r \in {q.row : q \in {x \in DOMAIN pings : x.key = k}}
                          |-> pings[Ping(k, r)]],
         error |-> IF k \in errkeys THEN SeqToBag(<<ErrorRow>>) ELSE EmptyTable]]

\* bucket.objects.filter(Prefix = f'bus_data/{date_str}')
objects(date) == {k \in DOMAIN bus_data : k.date = date}

\* the rows of column kind ('vehicle' or 'error') of the objects of a day,
\* each with the scrape_file it came from
parsed(date, kind) ==
    LET tagged == UNION {{r @@ [scrape_file |-> k] : r \in DOMAIN bus_data[k][kind]} :
                            k \in objects(date)}
    IN  [x \in tagged |->
            bus_data[x.scrape_file][kind][[f \in DOMAIN x \ {"scrape_file"} |-> x[f]]]]

\* variant: the object is put whatever the table holds
always(t) == TRUE

\* len(t) > 0
has_rows(t) == NRows(t) > 0

\* to_datetime raises ValueError when some tmstmp does not match the format
to_datetime_raises(data) == \E r \in DOMAIN data : ~tmstmp_matches(r.tmstmp)

\* the columns data_hour and data_date (data_time holds both)
with_data_time(data) ==
    MapRows(data, LAMBDA r : r @@ [data_hour |-> data_hour(r.tmstmp),
                                   data_date |-> data_date(r.tmstmp)])

hourly_key(r) == [data_date |-> r.data_date, data_hour |-> r.data_hour, rt |-> r.rt, des |-> r.des]

\* variant: the number of rows of the group
agg_count(data, rows, col) == SumCounts(data, rows)

\* agg({col: set}) followed by apply(len)
agg_set_len(data, rows, col) == Cardinality({r[col] : r \in rows})

hourly_summary(data) ==
    [g \in {LET rows == {r \in DOMAIN data : hourly_key(r) = k}
            IN  k @@ [vid |-> {r.vid : r \in rows},
                      tatripid |-> {r.tatripid : r \in rows},
                      tablockid |-> {r.tablockid : r \in rows},
                      vh_count |-> agg_set_len(data, rows, "vid"),
                      trip_count |-> agg_set_len(data, rows, "tatripid"),
                      block_count |-> agg_set_len(data, rows, "tablockid")] :
                k \in {hourly_key(r) : r \in DOMAIN data}} |-> 1]

\* variant: one object per folder, whatever the date
folder_key(folder, date) == [folder |-> folder, date |-> rt_date_range[1]]

ObjectKey(folder, date) == [folder |-> folder, date |-> date]

\* bucket.put_object(Body = table.to_csv(), Key = f'{folder}/{date}.csv')
put_object(b, folder, date, table) ==
    [k \in DOMAIN b \cup {ObjectKey(folder, date)} |->
        IF k = ObjectKey(folder, date) THEN table ELSE b[k]]

\* the scraped objects: at most MaxPings vehicle rows, and an error row in no
\* object or in the first object of one day
InitRT ==
    /\ SchedIdle /\ CmpIdle
    /\ rt_pc = "loop" /\ rt_day = 1
    /\ bucket = EmptyTable
    /\ day_pc = <<>> /\ day_tables = <<>>
    /\ \E pings \in TablesUpTo({Ping(k, r) : k \in BatchKeys, r \in VehicleRows}, MaxPings),
          errkeys \in {{}} \cup {{[date |-> rt_date_range[i], n |-> 1]} : i \in DOMAIN rt_date_range} :
              bus_data = Scraped(pings, errkeys)

\* one iteration of `for day in date_range`
ProcessDay ==
    /\ rt_pc = "loop"
    /\ LET date == rt_date_range[rt_day]
           data == parsed(date, "vehicle")
           errors == parsed(date, "error")
           after_errors == IF has_rows(errors)
                           THEN put_object(bucket, "bus_full_day_errors_v2", date, errors)
                           ELSE bucket
       IN  IF has_rows(data) /\ to_datetime_raises(data)
           THEN /\ rt_pc' = "raised"
                /\ bucket' = after_errors
                /\ UNCHANGED rt_day
           ELSE /\ bucket' =
                      IF has_rows(data)
                      THEN put_object(
                               put_object(after_errors, "bus_full_day_data_v2", date,
                                          with_data_time(data)),
                               "bus_hourly_summary_v2", date,
                               hourly_summary(with_data_time(data)))
                      ELSE after_errors
                /\ rt_day' = rt_day + 1
                /\ rt_pc' = IF rt_day = Len(rt_date_range) THEN "done" ELSE "loop"
    /\ UNCHANGED <<bus_data, day_pc, day_tables>>
    /\ UNCHANGED <<schedvars, cmpvars>>

NextRT == ProcessDay

SpecRT == InitRT /\ [][NextRT]_vars

----------------------------------------------------------------------------
(* The loop body run per date: one run of the body for every date of date_range,
   each storage request a step of its own, the runs in any order; a run can be
   stopped between two requests and a date can be run again; scraped objects
   can be removed from bus_data/ between runs *)

\* the vehicle rows the scraped objects can hold: one of each day, one of the
\* first day stored under the second, one whose tmstmp carries seconds
RunPings ==
    {Ping([date |-> rt_date_range[1], n |-> 1], VehicleRow("v1", TS_17_2355, "a")),
     Ping([date |-> rt_date_range[2], n |-> 1], VehicleRow("v1", TS_17_2355, "a")),
     Ping([date |-> rt_date_range[2], n |-> 1], VehicleRow("v2", TS_18_0005, "b")),
     Ping([date |-> rt_date_range[1], n |-> 2], VehicleRow("v2", TS_18_Sec, "b"))}

InitRuns ==
    /\ SchedIdle /\ CmpIdle
    /\ rt_pc = "idle" /\ rt_day = 0
    /\ bucket = EmptyTable
    /\ day_pc = [i \in DOMAIN rt_date_range |-> "objects"]
    /\ day_tables = [i \in DOMAIN rt_date_range |-> [data |-> EmptyTable, errors |-> EmptyTable]]
    /\ \E pings \in SUBSET RunPings,
          errkeys \in {{}} \cup {{[date |-> rt_date_range[i], n |-> 1]} : i \in DOMAIN rt_date_range} :
              bus_data = Scraped([q \in pings |-> 1], errkeys)

\* the objects of the prefix are listed, fetched and parsed into data and errors
LoadObjects(i) ==
    /\ day_pc[i] = "objects"
    /\ day_tables' = [day_tables EXCEPT ![i] =
                         [data |-> parsed(rt_date_range[i], "vehicle"),
                          errors |-> parsed(rt_date_range[i], "error")]]
    /\ day_pc' = [day_pc EXCEPT ![i] = "errors"]
    /\ UNCHANGED <<rt_pc, rt_day, bus_data, bucket>>
    /\ UNCHANGED <<schedvars, cmpvars>>

\* if len(errors) > 0: put_object of the errors
PutErrors(i) ==
    /\ day_pc[i] = "errors"
    /\ bucket' = IF has_rows(day_tables[i].errors)
                 THEN put_object(bucket, "bus_full_day_errors_v2", rt_date_range[i],
                                 day_tables[i].errors)
                 ELSE bucket
    /\ day_pc' = [day_pc EXCEPT ![i] = "data"]
    /\ UNCHANGED <<rt_pc, rt_day, bus_data, day_tables>>
    /\ UNCHANGED <<schedvars, cmpvars>>

\* if len(data) > 0: to_datetime, data_hour, data_date and put_object of the data
PutData(i) ==
    /\ day_pc[i] = "data"
    /\ IF ~has_rows(day_tables[i].data)
       THEN /\ day_pc' = [day_pc EXCEPT ![i] = "done"]
            /\ UNCHANGED <<bucket, day_tables>>
       ELSE IF to_datetime_raises(day_tables[i].data)
       THEN /\ day_pc' = [day_pc EXCEPT ![i] = "raised"]
            /\ UNCHANGED <<bucket, day_tables>>
       ELSE /\ day_tables' = [day_tables EXCEPT ![i].data = with_data_time(@)]
            /\ bucket' = put_object(bucket, "bus_full_day_data_v2", rt_date_range[i],
                                    with_data_time(day_tables[i].data))
            /\ day_pc' = [day_pc EXCEPT ![i] = "hourly"]
    /\ UNCHANGED <<rt_pc, rt_day, bus_data>>
    /\ UNCHANGED <<schedvars, cmpvars>>

\* hourly_summary and its put_object
PutHourly(i) ==
    /\ day_pc[i] = "hourly"
    /\ bucket' = put_object(bucket, "bus_hourly_summary_v2", rt_date_range[i],
                            hourly_summary(day_tables[i].data))
    /\ day_pc' = [day_pc EXCEPT ![i] = "done"]
    /\ UNCHANGED <<rt_pc, rt_day, bus_data, day_tables>>
    /\ UNCHANGED <<schedvars, cmpvars>>

\* the run of a date is stopped between two storage requests
Abort(i) ==
    /\ day_pc[i] \in {"errors", "data", "hourly"}
    /\ day_pc' = [day_pc EXCEPT ![i] = "aborted"]
    /\ UNCHANGED <<rt_pc, rt_day, bus_data, bucket, day_tables>>
    /\ UNCHANGED <<schedvars, cmpvars>>

\* the date is processed again
Rerun(i) ==
    /\ day_pc[i] \in {"done", "raised", "aborted"}
    /\ day_pc' = [day_pc EXCEPT ![i] = "objects"]
    /\ day_tables' = [day_tables EXCEPT ![i] = [data |-> EmptyTable, errors |-> EmptyTable]]
    /\ UNCHANGED <<rt_pc, rt_day, bus_data, bucket>>
    /\ UNCHANGED <<schedvars, cmpvars>>

\* a scraped object is removed from bus_data/ while no run of its date is under way
RemoveObject(k) ==
    /\ k \in DOMAIN bus_data
    /\ \A i \in DOMAIN rt_date_range :
          rt_date_range[i] = k.date => day_pc[i] \in {"done", "raised", "aborted"}
    /\ bus_data' = [x \in DOMAIN bus_data \ {k} |-> bus_data[x]]
    /\ UNCHANGED <<rt_pc, rt_day, bucket, day_pc, day_tables>>
    /\ UNCHANGED <<schedvars, cmpvars>>

NextRuns ==
    \/ \E i \in DOMAIN rt_date_range :
          LoadObjects(i) \/ PutErrors(i) \/ PutData(i) \/ PutHourly(i) \/ Abort(i) \/ Rerun(i)
    \/ \E k \in BatchKeys : RemoveObject(k)

SpecRuns == InitRuns /\ [][NextRuns]_vars

----------------------------------------------------------------------------
(* Realtime Aggregator: properties of the objects put by the daily loop *)

\* the loop has handled the i-th day of date_range
Processed(i) == rt_pc \in {"loop", "done"} /\ rt_day > i

\* the vehicle rows of the scraped objects of a date, as (object key, row) pairs
DayPings(date) == {Ping(k, r) : k \in objects(date), r \in VehicleRows} \cap
                  UNION {{Ping(k, r) : r \in DOMAIN bus_data[k].vehicle} : k \in objects(date)}

\* the pings of a date that fall in the bucket (dd, h, route, des)
BucketPings(date, dd, h, route, des) ==
    {q \in DayPings(date) :
        /\ data_date(q.row.tmstmp) = dd /\ data_hour(q.row.tmstmp) = h
        /\ q.row.rt = route /\ q.row.des = des}

\* the rows of the hourly summary object of a date for the bucket (dd, h, route, des)
HourlyRows(date, dd, h, route, des) ==
    {g \in DOMAIN bucket[ObjectKey("bus_hourly_summary_v2", date)] :
        g.data_date = dd /\ g.data_hour = h /\ g.rt = route /\ g.des = des}

\* C12: in the hourly summary of a day, every bucket (data_date, data_hour, rt,
\* des) that holds at least one vehicle row of the day has exactly one row, whose
\* trip_count, vh_count and block_count are the numbers of distinct tatripid,
\* vid and tablockid of the bucket's rows; a bucket without a row has none.
C12_TripCountIsDistinctTatripid ==
    \A i \in DOMAIN rt_date_range :
        LET date == rt_date_range[i]
            hourly == bucket[ObjectKey("bus_hourly_summary_v2", date)]
        IN  ObjectKey("bus_hourly_summary_v2", date) \in DOMAIN bucket =>
                /\ \A q \in DayPings(date) :
                      HourlyRows(date, data_date(q.row.tmstmp), data_hour(q.row.tmstmp),
                                 q.row.rt, q.row.des) # {}
                /\ \A g \in DOMAIN hourly :
                      LET pings == BucketPings(date, g.data_date, g.data_hour, g.rt, g.des)
                      IN  /\ pings # {}
                          /\ hourly[g] = 1
                          /\ HourlyRows(date, g.data_date, g.data_hour, g.rt, g.des) = {g}
                          /\ g.trip_count = Cardinality({q.row.tatripid : q \in pings})
                          /\ g.vh_count = Cardinality({q.row.vid : q \in pings})
                          /\ g.block_count = Cardinality({q.row.tablockid : q \in pings})

\* two scraped objects of one day repeat the tatripid of a bucket, once per
\* vehicle: the bucket has trip_count 1 and vh_count 2
C12_Witness ==
    \E i \in DOMAIN rt_date_range :
        /\ ObjectKey("bus_hourly_summary_v2", rt_date_range[i]) \in DOMAIN bucket
        /\ \E g \in DOMAIN bucket[ObjectKey("bus_hourly_summary_v2", rt_date_range[i])] :
              /\ g.trip_count = 1 /\ g.vh_count = 2
              /\ \E q1, q2 \in BucketPings(rt_date_range[i], g.data_date, g.data_hour, g.rt, g.des) :
                    q1.key # q2.key /\ q1.row.tatripid = q2.row.tatripid

\* the scraped objects of a date hold no vehicle row
NoVehicleRows(date) == \A k \in objects(date) : DOMAIN bus_data[k].vehicle = {}

\* the object of a folder for a date is the same before and after the step
ObjectUntouched(folder, date) ==
    /\ ObjectKey(folder, date) \in DOMAIN bucket' <=> ObjectKey(folder, date) \in DOMAIN bucket
    /\ ObjectKey(folder, date) \in DOMAIN bucket =>
           bucket'[ObjectKey(folder, date)] = bucket[ObjectKey(folder, date)]

\* C13: the iteration for a date whose scraped objects hold no vehicle row puts
\* neither the full-day data object nor the hourly summary object of the date,
\* and no hourly summary ever holds a row with trip_count 0.
C13_NoObjectsForEmptyDay ==
    /\ [][\A i \in DOMAIN rt_date_range :
            (rt_pc = "loop" /\ rt_day = i /\ NoVehicleRows(rt_date_range[i])) =>
                /\ ObjectUntouched("bus_full_day_data_v2", rt_date_range[i])
                /\ ObjectUntouched("bus_hourly_summary_v2", rt_date_range[i])]_vars
    /\ [](\A k \in DOMAIN bucket :
            k.folder = "bus_hourly_summary_v2" =>
                \A g \in DOMAIN bucket[k] : g.trip_count >= 1)

\* the first day had an error row and no vehicle row: its errors object is
\* there, its data and hourly summary objects are not, and the second day has both
C13_Witness ==
    /\ rt_pc = "done"
    /\ NoVehicleRows(rt_date_range[1])
    /\ ObjectKey("bus_full_day_errors_v2", rt_date_range[1]) \in DOMAIN bucket
    /\ ObjectKey("bus_full_day_data_v2", rt_date_range[1]) \notin DOMAIN bucket
    /\ ObjectKey("bus_hourly_summary_v2", rt_date_range[1]) \notin DOMAIN bucket
    /\ ObjectKey("bus_hourly_summary_v2", rt_date_range[2]) \in DOMAIN bucket

----------------------------------------------------------------------------
(* rt_daily_aggregations.ipynb: comparison of realtime and scheduled trips *)

\* largest trip_count of a row of an input file
MaxTripCount == 2

\* pd.to_datetime of a date 'YYYY-MM-DD' (the number YYYYMMDD) of 2022 or 2023:
\* the days since 2021-12-31
to_datetime(x) == (x \div 10000 - 2022) * 365 + from_format(x)

\* the dates whose day_type is overwritten with 'hol'
holidays == {to_datetime(20220531), to_datetime(20220704)}

\* variant: the month and day of a listed date, in any year
isin_month_day(date) == \E h \in holidays : date % 365 = h % 365

\* compare_daily_by_rte.date.isin(['2022-05-31', '2022-07-04'])
isin_holidays(date) == date \in holidays

\* dayofweek.map({0: 'wk', .., 4: 'wk', 5: 'sat', 6: 'sun'})
day_type_map(dow) == IF dow \in 0..4 THEN "wk" ELSE IF dow = 5 THEN "sat" ELSE "sun"

\* variant: the day type of the weekday, also on a listed date
day_type_of_weekday(date) == day_type_map(dayofweek(date))

\* the day_type column of a row of compare_daily_by_rte
day_type(date) == IF isin_holidays(date) THEN "hol" ELSE day_type_map(dayofweek(date))

RECURSIVE gcd(_, _)
gcd(a, b) == IF b = 0 THEN a ELSE gcd(b, a % b)

\* variant: scheduled over realtime
ratio_sched_to_rt(rt, sched) ==
    IF rt = 0 THEN [num |-> IF sched = 0 THEN 0 ELSE 1, den |-> 0]
    ELSE [num |-> sched \div gcd(sched, rt), den |-> rt \div gcd(sched, rt)]

\* trip_count_rt / trip_count_sched, a float: the fraction in lowest terms, with
\* den = 0 for inf (num = 1) and NaN (num = 0)
ratio(rt, sched) ==
    IF sched = 0 THEN [num |-> IF rt = 0 THEN 0 ELSE 1, den |-> 0]
    ELSE [num |-> rt \div gcd(rt, sched), den |-> sched \div gcd(rt, sched)]

\* the sum of column col over the rows S of table B
RECURSIVE SumCol(_, _, _)
SumCol(B, S, col) ==
    IF S = {} THEN 0
    ELSE LET x == CHOOSE y \in S : TRUE IN B[x] * x[col] + SumCol(B, S \ {x}, col)

Feed(version, start, end) ==
    [schedule_version |-> version, feed_start_date |-> start, feed_end_date |-> end]

\* date_range of a feed; the periods of the model lie inside one month
period(feed) == feed.feed_start_date .. feed.feed_end_date

\* rt_raw: the daily files of the period, appended
RECURSIVE append_files(_, _)
append_files(files, days) ==
    IF days = {} THEN EmptyTable
    ELSE LET d == CHOOSE x \in days : TRUE IN files[d] (+) append_files(files, days \ {d})

\* pd.read_csv of a daily file raises FileNotFoundError
read_csv_raises(feed) == \E d \in period(feed) : d \notin DOMAIN hourly_files

\* variant: a row for every date and every route of the files, with sum 0 where
\* the route has no row on the date
rt_daily_every_route(rt) ==
    [k \in {[date |-> to_datetime(r.data_date), route_id |-> q.rt] :
                r \in DOMAIN rt, q \in DOMAIN rt} |->
        SumCol(rt, {r \in DOMAIN rt : to_datetime(r.data_date) = k.date /\ r.rt = k.route_id},
               "trip_count")]

\* rt.groupby(['date', 'route_id'])['trip_count'].sum()
rt_daily_by_rte(rt) ==
    [k \in {[date |-> to_datetime(r.data_date), route_id |-> r.rt] : r \in DOMAIN rt} |->
        SumCol(rt, {r \in DOMAIN rt : to_datetime(r.data_date) = k.date /\ r.rt = k.route_id},
               "trip_count")]

\* schedule.groupby(['date', 'route_id'])['trip_count'].sum()
sched_daily_by_rte(schedule) ==
    [k \in {[date |-> to_datetime(r.date), route_id |-> r.route_id] : r \in DOMAIN schedule} |->
        SumCol(schedule, {r \in DOMAIN schedule :
                              to_datetime(r.date) = k.date /\ r.route_id = k.route_id},
               "trip_count")]

\* variant: the merge keeps every scheduled (date, route_id), with 0 observed
\* trips where the daily files hold none
merge_left_on_schedule(rt_daily, sched_daily) ==
    [r \in {[date |-> k.date, route_id |-> k.route_id,
             trip_count_rt |-> IF k \in DOMAIN rt_daily THEN rt_daily[k] ELSE 0,
             trip_count_sched |-> sched_daily[k],
             dayofweek |-> dayofweek(k.date), day_type |-> day_type(k.date)] :
                k \in DOMAIN sched_daily} |-> 1]

\* the inner merge on (date, route_id) with dayofweek and day_type
compare_daily_by_rte(rt_daily, sched_daily) ==
    [r \in {[date |-> k.date, route_id |-> k.route_id,
             trip_count_rt |-> rt_daily[k], trip_count_sched |-> sched_daily[k],
             dayofweek |-> dayofweek(k.date), day_type |-> day_type(k.date)] :
                k \in DOMAIN rt_daily \cap DOMAIN sched_daily} |-> 1]

\* variant: the sums of every row of the table, whatever its route and day type
sum_all_rows(t, route, dt, col) == SumCol(t, DOMAIN t, col)

\* the sum of col over the rows of the group (route_id, day_type)
group_sum(t, route, dt, col) ==
    SumCol(t, {r \in DOMAIN t : r.route_id = route /\ r.day_type = dt}, col)

\* groupby(['route_id', 'day_type'])[['trip_count_rt', 'trip_count_sched']].sum()
sum_by_day_type(t) ==
    [g \in {[route_id |-> r.route_id, day_type |-> r.day_type,
             trip_count_rt |-> group_sum(t, r.route_id, r.day_type, "trip_count_rt"),
             trip_count_sched |-> group_sum(t, r.route_id, r.day_type, "trip_count_sched")] :
                r \in DOMAIN t} |-> 1]

\* table['ratio'] = table['trip_count_rt'] / table['trip_count_sched']
with_ratio(t) ==
    [g \in {r @@ [ratio |-> ratio(r.trip_count_rt, r.trip_count_sched)] : r \in DOMAIN t} |-> 1]

\* the name of the combined comparison file, with its hard-coded dates
CombinedFile == Feed("combined", 20220520, 20220720)

\* variant: nothing is written
keep_files(files, name, table) == files

\* to_csv of a table under the name of a feed's comparison file
to_csv(files, name, table) ==
    [k \in DOMAIN files \cup {name} |-> IF k = name THEN table ELSE files[k]]

\* rows of the input files
SchedRow(d, h, c) == [date |-> d, route_id |-> "22", hour |-> h, trip_count |-> c]

HourlyRow(dd, h, route, c) ==
    [data_date |-> dd, data_hour |-> h, rt |-> route, des |-> "Howard", trip_count |-> c]

\* what a schedule summary may hold for a date: nothing, one hour, two hours
SchedProfiles(d) ==
    {EmptyTable,
     SeqToBag(<<SchedRow(d, 5, 1)>>),
     SeqToBag(<<SchedRow(d, 5, 1), SchedRow(d, 6, MaxTripCount)>>)}

\* what the hourly summary of day d may hold: one hour of route 22, two hours of
\* it, a row of the evening before (a tmstmp of d - 1 scraped on d), or a route
\* that no schedule names
HourlyProfiles(d) ==
    {SeqToBag(<<HourlyRow(d, 5, "22", 1)>>),
     SeqToBag(<<HourlyRow(d, 5, "22", 1), HourlyRow(d, 6, "22", MaxTripCount)>>),
     SeqToBag(<<HourlyRow(d - 1, 23, "22", 1), HourlyRow(d, 5, "22", 1)>>),
     SeqToBag(<<HourlyRow(d, 5, "9", 1)>>)}

\* the daily files of the dates in days, at most one of them missing
HourlyFiles(days) ==
    {[d \in days \ miss |-> f[d]] :
        miss \in {{}} \cup {{d} : d \in days},
        f \in {g \in [days -> UNION {HourlyProfiles(d) : d \in days}] :
                  \A d \in days : g[d] \in HourlyProfiles(d)}}

\* a comparison file left in storage by an earlier run
StaleComparison ==
    SeqToBag(<<[route_id |-> "22", day_type |-> "wk", trip_count_rt |-> 1,
                trip_count_sched |-> 2, ratio |-> ratio(1, 2)]>>)

\* two feeds of the notebook's list, the first cut to its last two days and the
\* second to its first day; 2022-06-08 lies between their periods
TwoFeeds == <<Feed("20220603", 20220606, 20220607), Feed("20220608", 20220609, 20220609)>>

\* a run over two periods with write access, nothing stored before
TwoPeriodRun ==
    /\ schedule_feeds = TwoFeeds
    /\ bucket_type = "private"
    /\ comparison_files = EmptyTable
    /\ \E a \in SchedProfiles(20220606), b \in SchedProfiles(20220607),
          c \in SchedProfiles(20220608), d \in SchedProfiles(20220609) :
              schedule_files = [v \in {"20220603", "20220608"} |->
                                   IF v = "20220603" THEN a (+) b ELSE c (+) d]
    /\ hourly_files \in HourlyFiles({20220606, 20220607, 20220609})

\* a run over the same two periods, with or without write access, over what
\* an earlier run left in storage
StoredComparisonsRun ==
    /\ schedule_feeds = TwoFeeds
    /\ bucket_type \in {"public", "private"}
    /\ comparison_files \in
           {EmptyTable,
            [k \in {TwoFeeds[1]} |-> StaleComparison],
            [k \in {TwoFeeds[1], TwoFeeds[2]} |-> StaleComparison]}
    /\ schedule_files = [v \in {"20220603", "20220608"} |->
                            IF v = "20220603"
                            THEN SeqToBag(<<SchedRow(20220606, 5, 1), SchedRow(20220607, 5, 1)>>)
                            ELSE SeqToBag(<<SchedRow(20220609, 5, MaxTripCount)>>)]
    /\ hourly_files = [d \in {20220606, 20220607, 20220609} |->
                          SeqToBag(<<HourlyRow(d, 5, "22", 1)>>)]

\* a run over a Saturday, a Sunday and the Monday 2022-07-04
HolidayRun ==
    /\ schedule_feeds = <<Feed("20220608", 20220702, 20220704)>>
    /\ bucket_type = "private"
    /\ comparison_files = EmptyTable
    /\ \E a \in SchedProfiles(20220702), b \in SchedProfiles(20220703),
          c \in SchedProfiles(20220704) :
              schedule_files = [v \in {"20220608"} |-> a (+) b (+) c]
    /\ hourly_files \in HourlyFiles({20220702, 20220703, 20220704})

\* a run over 2023-07-04 (a Tuesday), with a feed list for 2023
NextYearRun ==
    /\ schedule_feeds = <<Feed("20230701", 20230704, 20230704)>>
    /\ bucket_type = "private"
    /\ comparison_files = EmptyTable
    /\ \E a \in SchedProfiles(20230704) : schedule_files = [v \in {"20230701"} |-> a]
    /\ hourly_files \in HourlyFiles({20230704})

InitCmp ==
    /\ SchedIdle /\ RTIdle
    /\ cmp_pc = "feeds" /\ feed_ix = 1
    /\ compare_results = <<>> /\ combined = EmptyTable /\ summary = EmptyTable
    /\ (TwoPeriodRun \/ StoredComparisonsRun \/ HolidayRun \/ NextYearRun)

\* one iteration of `for feed in schedule_feeds` of the comparison cell
CompareFeed ==
    /\ cmp_pc = "feeds"
    /\ LET feed == schedule_feeds[feed_ix]
       IN  IF read_csv_raises(feed)
           THEN /\ cmp_pc' = "raised"
                /\ UNCHANGED <<feed_ix, compare_results, comparison_files>>
           ELSE LET schedule_raw == schedule_files[feed.schedule_version]
                    rt_raw == append_files(hourly_files, period(feed))
                    daily == compare_daily_by_rte(rt_daily_by_rte(rt_raw),
                                                  sched_daily_by_rte(schedule_raw))
                    compare_by_day_type == with_ratio(sum_by_day_type(daily))
                IN  /\ compare_results' =
                           Append(compare_results,
                                  [feed |-> feed, compare_daily_by_rte |-> daily,
                                   compare_by_day_type |-> compare_by_day_type])
                    /\ comparison_files' =
                           IF bucket_type = "private"
                           THEN to_csv(comparison_files, feed, compare_by_day_type)
                           ELSE comparison_files
                    /\ feed_ix' = feed_ix + 1
                    /\ cmp_pc' = IF feed_ix = Len(schedule_feeds)
                                 THEN "read_comparisons" ELSE "feeds"
    /\ UNCHANGED <<schedule_feeds, bucket_type, schedule_files, hourly_files, combined, summary>>
    /\ UNCHANGED <<schedvars, rtvars>>

\* the comparison file of every feed is in storage
all_stored(i) == \A j \in 1..i : schedule_feeds[j] \in DOMAIN comparison_files

\* combined: the comparison files of the first i feeds, appended
RECURSIVE read_comparisons(_)
read_comparisons(i) ==
    IF i = 0 THEN EmptyTable
    ELSE read_comparisons(i - 1) (+) comparison_files[schedule_feeds[i]]

\* the cell that reads every feed's comparison file back into combined
ReadComparisons ==
    /\ cmp_pc = "read_comparisons"
    /\ IF all_stored(Len(schedule_feeds))
       THEN /\ combined' = read_comparisons(Len(schedule_feeds))
            /\ cmp_pc' = "summary"
       ELSE /\ cmp_pc' = "raised"
            /\ UNCHANGED combined
    /\ UNCHANGED <<feed_ix, schedule_feeds, bucket_type, schedule_files, hourly_files,
                   comparison_files, compare_results, summary>>
    /\ UNCHANGED <<schedvars, rtvars>>

\* summary = combined.groupby(['route_id', 'day_type'])[[..]].sum()
SummarySums ==
    /\ cmp_pc = "summary"
    /\ summary' = sum_by_day_type(combined)
    /\ cmp_pc' = "ratio"
    /\ UNCHANGED <<feed_ix, schedule_feeds, bucket_type, schedule_files, hourly_files,
                   comparison_files, compare_results, combined>>
    /\ UNCHANGED <<schedvars, rtvars>>

\* summary['ratio'] = summary['trip_count_rt'] / summary['trip_count_sched']
SummaryRatio ==
    /\ cmp_pc = "ratio"
    /\ summary' = with_ratio(summary)
    /\ cmp_pc' = "save"
    /\ UNCHANGED <<feed_ix, schedule_feeds, bucket_type, schedule_files, hourly_files,
                   comparison_files, compare_results, combined>>
    /\ UNCHANGED <<schedvars, rtvars>>

\* if BUCKET_TYPE == "private": summary.to_csv(...)
SaveSummary ==
    /\ cmp_pc = "save"
    /\ comparison_files' = IF bucket_type = "private"
                           THEN to_csv(comparison_files, CombinedFile, summary)
                           ELSE comparison_files
    /\ cmp_pc' = "done"
    /\ UNCHANGED <<feed_ix, schedule_feeds, bucket_type, schedule_files, hourly_files,
                   compare_results, combined, summary>>
    /\ UNCHANGED <<schedvars, rtvars>>

NextCmp == CompareFeed \/ ReadComparisons \/ SummarySums \/ SummaryRatio \/ SaveSummary

SpecCmp == InitCmp /\ [][NextCmp]_vars

----------------------------------------------------------------------------
(* The two notebooks that write under BUCKET_TYPE: a run of the schedule
   notebook or a run of the comparison, with BUCKET_TYPE "public" or "private" *)

\* a run of static_gtfs_analysis.ipynb over an archive with at most two files
\* missing or over a feed of at most two trip and stop_time rows
ScheduleWriteRun ==
    /\ pc = "format_dates_hours"
    /\ \/ PartialFeed
       \/ TripFeed /\ namelist = AllFiles /\ NRows(trips) + NRows(stop_times) <= 2
    /\ loaded = GTFSFeed(namelist)
    /\ actual_service = EmptyTable
    /\ trip_summary = EmptyTable
    /\ route_daily_hourly_summary = EmptyTable
    /\ route_dir_daily_hourly_summary = EmptyTable
    /\ saved \in {{}, {"schedule_route_daily_hourly_summary"}}
    /\ RTIdle
    /\ cmp_pc = "idle" /\ feed_ix = 0
    /\ schedule_feeds = <<>> /\ bucket_type \in {"public", "private"}
    /\ schedule_files = EmptyTable /\ hourly_files = EmptyTable
    /\ comparison_files = EmptyTable
    /\ compare_results = <<>> /\ combined = EmptyTable /\ summary = EmptyTable

\* a run of the comparison cells over what an earlier run left in storage
CompareWriteRun ==
    /\ SchedIdle /\ RTIdle
    /\ cmp_pc = "feeds" /\ feed_ix = 1
    /\ compare_results = <<>> /\ combined = EmptyTable /\ summary = EmptyTable
    /\ StoredComparisonsRun

InitWrite == ScheduleWriteRun \/ CompareWriteRun

NextWrite == Next \/ NextCmp

SpecWrite == InitWrite /\ [][NextWrite]_vars

----------------------------------------------------------------------------
(* Day-Type Classifier: properties of compare_daily_by_rte *)

DayTypes == {"wk", "sat", "sun", "hol"}

\* the configured holiday list, as dates 'YYYY-MM-DD'
HolidayList == {20220531, 20220704}

\* days since the last Monday; 2022-06-06 was a Monday
DaysAfterMonday(date) == (date - to_datetime(20220606) + 700) % 7

\* the day type of a parsed date: hol on a listed holiday, else by its weekday
DayTypeOf(date) ==
    IF \E h \in HolidayList : date = to_datetime(h) THEN "hol"
    ELSE IF DaysAfterMonday(date) <= 4 THEN "wk"
    ELSE IF DaysAfterMonday(date) = 5 THEN "sat" ELSE "sun"

\* the rows of compare_daily_by_rte of the i-th feed handled
Compared(i) == DOMAIN compare_results[i].compare_daily_by_rte

\* C14: every compared date has exactly one day_type among wk, sat, sun, hol:
\* hol when the date is in the holiday list whatever its day of week (so
\* 2022-07-04, a Monday, is hol), otherwise wk from Monday to Friday, sat on a
\* Saturday and sun on a Sunday.
C14_DayTypeOfComparedDate ==
    \A i \in DOMAIN compare_results :
        /\ \A r \in Compared(i) :
              /\ r.day_type \in DayTypes
              /\ r.day_type = DayTypeOf(r.date)
              /\ r.date = to_datetime(20220704) =>
                    DaysAfterMonday(r.date) = 0 /\ r.day_type = "hol"
        /\ \A r1, r2 \in Compared(i) : r1.date = r2.date => r1.day_type = r2.day_type

\* a comparison over Saturday 2022-07-02, Sunday 2022-07-03 and Monday
\* 2022-07-04, classified sat, sun and hol
C14_Witness ==
    \E i \in DOMAIN compare_results :
        /\ \E r \in Compared(i) : r.date = to_datetime(20220702) /\ r.day_type = "sat"
        /\ \E r \in Compared(i) : r.date = to_datetime(20220703) /\ r.day_type = "sun"
        /\ \E r \in Compared(i) : r.date = to_datetime(20220704) /\ r.day_type = "hol"

\* the day of the year of a parsed date of 2022 or 2023 (neither is a leap year)
DayOfYear(date) == ((date - 1) % 365) + 1

\* C15 as stated: a compared date is hol whenever its month and day are those of
\* a listed holiday, in any year.
C15_HolidayEveryYear ==
    \A i \in DOMAIN compare_results :
        \A r \in Compared(i) :
            (\E h \in HolidayList : DayOfYear(r.date) = DayOfYear(to_datetime(h))) =>
                r.day_type = "hol"

\* C15 amended: the holiday list is a set of full dates; a compared date is hol
\* exactly when it is one of the listed dates, year included, so 2022-07-04 is
\* hol and 2023-07-04 (a Tuesday) is wk.
C15_HolidayIsFullDate ==
    \A i \in DOMAIN compare_results :
        \A r \in Compared(i) :
            /\ r.day_type = "hol" <=> \E h \in HolidayList : r.date = to_datetime(h)
            /\ r.date = to_datetime(20230704) => r.day_type = "wk"

\* 2023-07-04 is compared and classified wk
C15_Witness ==
    \E i \in DOMAIN compare_results :
        \E r \in Compared(i) : r.date = to_datetime(20230704) /\ r.day_type = "wk"

----------------------------------------------------------------------------
(* Feed Stitcher / Comparator: properties of the per-feed and combined tables *)

\* the scheduled trips of (date, route) in the schedule summary of a feed
ScheduledRows(feed, date, route) ==
    {r \in DOMAIN schedule_files[feed.schedule_version] :
        to_datetime(r.date) = date /\ r.route_id = route}

ScheduledOn(feed, date, route) ==
    SumCol(schedule_files[feed.schedule_version], ScheduledRows(feed, date, route), "trip_count")

\* the observed trips of (date, route) in the daily file of day
ObservedRows(day, date, route) ==
    {r \in DOMAIN hourly_files[day] : to_datetime(r.data_date) = date /\ r.rt = route}

\* the observed trips of (date, route) in the daily files of the period of a feed
ObservedOn(feed, date, route) ==
    LET perFile == [day \in period(feed) |->
                       SumCol(hourly_files[day], ObservedRows(day, date, route), "trip_count")]
    IN  SumCounts(perFile, DOMAIN perFile)

\* the dates named by the schedule summary or the daily files of a feed
DatesOf(feed) ==
    {to_datetime(r.date) : r \in DOMAIN schedule_files[feed.schedule_version]} \cup
    UNION {{to_datetime(r.data_date) : r \in DOMAIN hourly_files[day]} : day \in period(feed)}

\* the dates of a day type with observed trips of the route in the feed's files
ObservedDates(feed, route, dt) ==
    {d \in DatesOf(feed) :
        /\ DayTypeOf(d) = dt
        /\ \E day \in period(feed) : ObservedRows(day, d, route) # {}}

\* the dates of a day type on which the route has both scheduled and observed trips
ComparedDates(feed, route, dt) ==
    {d \in ObservedDates(feed, route, dt) : ScheduledRows(feed, d, route) # {}}

\* the sum of the scheduled, of the observed trips of a route over a set of dates
ScheduledSum(feed, route, dates) ==
    LET perDate == [d \in dates |-> ScheduledOn(feed, d, route)]
    IN  SumCounts(perDate, dates)

ObservedSum(feed, route, dates) ==
    LET perDate == [d \in dates |-> ObservedOn(feed, d, route)]
    IN  SumCounts(perDate, dates)

\* C16: in the comparison of one feed period every row (route_id, day_type) has
\* as trip_count_sched and trip_count_rt the sums of the daily scheduled and
\* observed trip counts over the compared dates of the day type, and its ratio
\* times trip_count_sched is trip_count_rt (observed 40 over scheduled 100 is 2/5).
C16_PerPeriodSumsAndRatio ==
    /\ ratio(40, 100) = [num |-> 2, den |-> 5]
    /\ \A i \in DOMAIN compare_results :
          LET feed == compare_results[i].feed
              table == compare_results[i].compare_by_day_type
          IN  \A g \in DOMAIN table :
                  LET dates == ComparedDates(feed, g.route_id, g.day_type)
                  IN  /\ dates # {}
                      /\ table[g] = 1
                      /\ \A g2 \in DOMAIN table :
                            (g2.route_id = g.route_id /\ g2.day_type = g.day_type) => g2 = g
                      /\ g.trip_count_sched = ScheduledSum(feed, g.route_id, dates)
                      /\ g.trip_count_rt = ObservedSum(feed, g.route_id, dates)
                      /\ g.ratio.den # 0
                      /\ g.ratio.num * g.trip_count_sched = g.trip_count_rt * g.ratio.den

\* a weekday row summed over two compared dates, with fewer observed than
\* scheduled trips
C16_Witness ==
    \E i \in DOMAIN compare_results :
        \E g \in DOMAIN compare_results[i].compare_by_day_type :
            /\ Cardinality(ComparedDates(compare_results[i].feed, g.route_id, g.day_type)) = 2
            /\ g.trip_count_rt = 2 /\ g.trip_count_sched = 2 + MaxTripCount
            /\ g.ratio = ratio(2, 2 + MaxTripCount)

\* the route ids of the input files
ComparedRoutes == {"22", "9"}

\* C17: a (route_id, day_type) with observed trips in a feed period and no
\* scheduled trip of the route on those dates has a row in the period's
\* comparison, and the row's ratio is neither 0 nor infinity.
C17_UnscheduledRouteIsFlagged ==
    \A i \in DOMAIN compare_results :
        LET feed == compare_results[i].feed
            table == compare_results[i].compare_by_day_type
        IN  \A route \in ComparedRoutes, dt \in DayTypes :
                LET dates == ObservedDates(feed, route, dt)
                IN  (dates # {} /\ ScheduledSum(feed, route, dates) = 0) =>
                        \E g \in DOMAIN table :
                            /\ g.route_id = route /\ g.day_type = dt
                            /\ ~(g.ratio.num = 0 /\ g.ratio.den # 0)
                            /\ ~(g.ratio.num # 0 /\ g.ratio.den = 0)

\* the rows for (route, dt) of the stored comparison file of the j-th feed
PeriodRows(j, route, dt) ==
    {g \in DOMAIN comparison_files[schedule_feeds[j]] : g.route_id = route /\ g.day_type = dt}

\* the sum of column col of the rows for (route, dt) over the stored files of all feeds
TotalOverPeriods(route, dt, col) ==
    LET perFeed == [j \in DOMAIN schedule_feeds |->
                       SumCol(comparison_files[schedule_feeds[j]], PeriodRows(j, route, dt), col)]
    IN  SumCounts(perFeed, DOMAIN perFeed)

\* C18: the combined summary holds exactly one row for every (route_id,
\* day_type) that has a row in the comparison of some feed period and none for
\* any other; its trip_count_rt and trip_count_sched are the sums of the
\* per-period sums and its ratio is total observed over total scheduled.  With
\* write access the per-period comparisons it sums are those of this run.
C18_CombinedSummaryOfSums ==
    cmp_pc \in {"save", "done"} =>
        /\ \A route \in ComparedRoutes, dt \in DayTypes :
              LET rows == {x \in DOMAIN summary : x.route_id = route /\ x.day_type = dt}
                  rt_total == TotalOverPeriods(route, dt, "trip_count_rt")
                  sched_total == TotalOverPeriods(route, dt, "trip_count_sched")
              IN  /\ (rows # {}) <=> (\E j \in DOMAIN schedule_feeds : PeriodRows(j, route, dt) # {})
                  /\ Cardinality(rows) <= 1
                  /\ \A x \in rows :
                        /\ summary[x] = 1
                        /\ x.trip_count_rt = rt_total /\ x.trip_count_sched = sched_total
                        /\ x.ratio.den # 0
                        /\ x.ratio.num * sched_total = rt_total * x.ratio.den
        /\ \A x \in DOMAIN summary : x.route_id \in ComparedRoutes /\ x.day_type \in DayTypes
        /\ bucket_type = "private" =>
              \A j \in DOMAIN schedule_feeds :
                  comparison_files[schedule_feeds[j]] = compare_results[j].compare_by_day_type

\* two periods of this run, each comparing dates of its own period, with unequal
\* sums for the same (route_id, day_type): the combined row holds the totals and
\* its ratio differs from the mean of the two per-period ratios
C18_Witness ==
    /\ cmp_pc = "done" /\ bucket_type = "private" /\ Len(compare_results) = 2
    /\ \A i \in DOMAIN compare_results :
          \A r \in Compared(i) :
              /\ to_datetime(compare_results[i].feed.feed_start_date) <= r.date
              /\ r.date <= to_datetime(compare_results[i].feed.feed_end_date)
    /\ \E g1 \in DOMAIN compare_results[1].compare_by_day_type,
          g2 \in DOMAIN compare_results[2].compare_by_day_type,
          x \in DOMAIN summary :
            /\ g1.route_id = x.route_id /\ g1.day_type = x.day_type
            /\ g2.route_id = x.route_id /\ g2.day_type = x.day_type
            /\ x.trip_count_rt = g1.trip_count_rt + g2.trip_count_rt
            /\ x.trip_count_sched = g1.trip_count_sched + g2.trip_count_sched
            /\ x.ratio = ratio(x.trip_count_rt, x.trip_count_sched)
            /\ 2 * g1.trip_count_sched * g2.trip_count_sched * x.trip_count_rt #
                   (g1.trip_count_rt * g2.trip_count_sched + g2.trip_count_rt * g1.trip_count_sched)
                       * x.trip_count_sched

\* C19: every (date, route) row of a feed period's comparison has its date
\* inside the period, so a date between two periods is in no comparison, and no
\* date is in the comparison of two periods.
C19_ComparedDatesInsidePeriod ==
    /\ \A i \in DOMAIN compare_results :
          \A r \in Compared(i) :
              /\ to_datetime(compare_results[i].feed.feed_start_date) <= r.date
              /\ r.date <= to_datetime(compare_results[i].feed.feed_end_date)
    /\ \A i, j \in DOMAIN compare_results :
          i # j => \A r1 \in Compared(i), r2 \in Compared(j) : r1.date # r2.date

\* C20: a run never stops on a daily file that is missing: when the run has
\* ended, every feed period of the list has its comparison.
C20_MissingDayIsSkipped ==
    cmp_pc \in {"done", "raised"} => Len(compare_results) = Len(schedule_feeds)

----------------------------------------------------------------------------
(* Error handling of the schedule notebook and of the daily aggregation *)

\* a required table is absent from the archive
RequiredMissing == \E i \in DOMAIN RequiredFiles : RequiredFiles[i] \notin namelist

\* C21: when one of stops/stop_times/routes/trips is missing from the archive,
\* loading fails for that version and its resolution does not proceed: the run
\* never gets past format_dates_hours to the trip summary.
C21_MissingRequiredTableStopsFeed ==
    RequiredMissing => pc \in {"format_dates_hours", "raised"}

\* C22: when calendar.txt, calendar_dates.txt or shapes.txt is absent (and the
\* required tables are there), processing continues on an empty table:
\* format_dates_hours and make_trip_summary never raise.
C22_MissingOptionalTableContinues ==
    (~RequiredMissing /\ namelist # AllFiles) => pc # "raised"

\* C23: a stop_time whose arrival_time or departure_time is not H:M:S is dropped
\* alone: format_dates_hours completes and gives every well-formed row of the
\* table its hours.
C23_MalformedRowOnlyDropped ==
    [][(pc = "format_dates_hours" /\ loaded = AllFiles) =>
          /\ pc' = "make_trip_summary"
          /\ stop_times' = format_stop_times(
                 Filter(stop_times, LAMBDA r : /\ ~get_hour_raises(r.arrival_time)
                                              /\ ~get_hour_raises(r.departure_time)))]_vars

----------------------------------------------------------------------------
(* The loop body run per date *)

OutputFolders == {"bus_full_day_errors_v2", "bus_full_day_data_v2", "bus_hourly_summary_v2"}

\* the stored objects keyed by a date
DayObjects(b, date) == [k \in {x \in DOMAIN b : x.date = date} |-> b[k]]

\* the objects a complete run of the body over the tables t puts for a date
PutBy(t, date) ==
    (IF has_rows(t.errors)
     THEN (ObjectKey("bus_full_day_errors_v2", date) :> t.errors) ELSE <<>>)
    @@ (IF has_rows(t.data)
        THEN (ObjectKey("bus_full_day_data_v2", date) :> t.data)
             @@ (ObjectKey("bus_hourly_summary_v2", date) :> hourly_summary(t.data))
        ELSE <<>>)

\* C24: the run of date D writes only the three objects keyed by D and reads
\* only the scraped objects of prefix bus_data/D: a step that is not a step of
\* D's run leaves the objects keyed by D as they are, whatever the order of the
\* steps and also when the other run stops part-way; the tables of D's run
\* come from D's scraped objects only; and when D's run is complete, the
\* objects it has put are those of a run of D on its own.
C24_RunsOfDistinctDatesIndependent ==
    /\ [][\A i \in DOMAIN rt_date_range :
             day_pc'[i] = day_pc[i] =>
                DayObjects(bucket', rt_date_range[i]) = DayObjects(bucket, rt_date_range[i])]_vars
    /\ [](\A k \in DOMAIN bucket :
             k.folder \in OutputFolders /\ \E i \in DOMAIN rt_date_range : k.date = rt_date_range[i])
    /\ [](\A i \in DOMAIN rt_date_range :
             \A r \in DOMAIN day_tables[i].data \cup DOMAIN day_tables[i].errors :
                r.scrape_file.date = rt_date_range[i])
    /\ [](\A i \in DOMAIN rt_date_range :
             day_pc[i] = "done" =>
                LET put == PutBy(day_tables[i], rt_date_range[i])
                IN  \A k \in DOMAIN put : k \in DOMAIN bucket /\ bucket[k] = put[k])

\* the run of the first date was stopped after it put its errors, the run of
\* the second date is complete and has put its data and its hourly summary
C24_Witness ==
    /\ day_pc[1] = "aborted" /\ day_pc[2] = "done"
    /\ ObjectKey("bus_full_day_errors_v2", rt_date_range[1]) \in DOMAIN bucket
    /\ has_rows(day_tables[1].data)
    /\ ObjectKey("bus_full_day_data_v2", rt_date_range[1]) \notin DOMAIN bucket
    /\ ObjectKey("bus_hourly_summary_v2", rt_date_range[2]) \in DOMAIN bucket

\* C30: after a completed run of date D, also one over changed scraped
\* objects, the stored objects keyed by D are exactly those of that run: each
\* is there and derived from the run's rows when the run has rows of its kind,
\* and is absent otherwise.
C30_ObjectsReflectLastRun ==
    \A i \in DOMAIN rt_date_range :
       day_pc[i] = "done" =>
          DayObjects(bucket, rt_date_range[i]) = PutBy(day_tables[i], rt_date_range[i])

\* the hourly summary objects the daily loop has put
HourlyObjects == {k \in DOMAIN bucket : k.folder = "bus_hourly_summary_v2"}

\* C29: every row of the hourly summary of date D has data_date D, and a
\* bucket (data_date, data_hour, rt, des) is a row of at most one daily file.
C29_BucketInOneDailyFile ==
    \A k1 \in HourlyObjects, k2 \in HourlyObjects :
       \A r1 \in DOMAIN bucket[k1], r2 \in DOMAIN bucket[k2] :
          /\ r1.data_date = k1.date
          /\ hourly_key(r1) = hourly_key(r2) => k1 = k2

----------------------------------------------------------------------------
(* The comparison: what the combined summary is built from, and which
   (date, route) pairs are compared *)

\* the per-period comparisons of the first i feeds of this run, appended
RECURSIVE ThisRunsComparisons(_)
ThisRunsComparisons(i) ==
    IF i = 0 THEN EmptyTable
    ELSE ThisRunsComparisons(i - 1) (+) compare_results[i].compare_by_day_type

\* C25: the combined summary is computed after the comparison of every feed of
\* schedule_feeds was completed in this run, and the table it sums is made of
\* exactly those per-period comparisons.
C25_CombinedFromThisRunsComparisons ==
    cmp_pc \in {"summary", "ratio", "save", "done"} =>
        /\ Len(compare_results) = Len(schedule_feeds)
        /\ \A i \in DOMAIN schedule_feeds : compare_results[i].feed = schedule_feeds[i]
        /\ combined = ThisRunsComparisons(Len(schedule_feeds))

\* C27: every row of every per-period comparison, daily and by day type, and
\* every row of the combined summary has trip_count_sched >= 1 and
\* trip_count_rt >= 1; no ratio has denominator 0 and no ratio is 0.
C27_CountsAtLeastOne ==
    /\ \A i \in DOMAIN compare_results :
          \A r \in DOMAIN compare_results[i].compare_daily_by_rte
                 \cup DOMAIN compare_results[i].compare_by_day_type :
              /\ r.trip_count_sched >= 1 /\ r.trip_count_rt >= 1
              /\ "ratio" \in DOMAIN r => r.ratio.den # 0 /\ r.ratio.num # 0
    /\ \A r \in DOMAIN combined \cup DOMAIN summary :
          /\ r.trip_count_sched >= 1 /\ r.trip_count_rt >= 1
          /\ "ratio" \in DOMAIN r => r.ratio.den # 0 /\ r.ratio.num # 0

\* the run is complete with a combined summary, and in one period route 22 is
\* scheduled on a date for which the daily files hold no row of it
C27_Witness ==
    /\ cmp_pc = "done" /\ DOMAIN summary # {}
    /\ \E i \in DOMAIN compare_results :
          LET feed == compare_results[i].feed
          IN  \E d \in DatesOf(feed) :
                 /\ ScheduledRows(feed, d, "22") # {}
                 /\ \A day \in period(feed) : ObservedRows(day, d, "22") = {}
                 /\ DOMAIN compare_results[i].compare_by_day_type # {}

\* C28: a (date, route) is compared in a period exactly when the schedule
\* summary holds a row of it and some daily file of the period holds a row of
\* it; its counts are the scheduled and the observed trips of that date; and
\* the scheduled sum of a (route, day_type) is taken over the compared dates
\* only, so the scheduled trips of a route-day without observed rows are in no sum.
C28_ComparedIffScheduledAndObserved ==
    \A i \in DOMAIN compare_results :
        LET feed == compare_results[i].feed
            daily == compare_results[i].compare_daily_by_rte
        IN  /\ \A d \in DatesOf(feed), route \in ComparedRoutes :
                  (\E r \in DOMAIN daily : r.date = d /\ r.route_id = route) <=>
                     /\ ScheduledRows(feed, d, route) # {}
                     /\ \E day \in period(feed) : ObservedRows(day, d, route) # {}
            /\ \A r \in DOMAIN daily :
                  /\ r.date \in DatesOf(feed) /\ r.route_id \in ComparedRoutes
                  /\ r.trip_count_sched = ScheduledOn(feed, r.date, r.route_id)
                  /\ r.trip_count_rt = ObservedOn(feed, r.date, r.route_id)
            /\ \A g \in DOMAIN compare_results[i].compare_by_day_type :
                  g.trip_count_sched =
                      SumCol(daily, {r \in DOMAIN daily : r.route_id = g.route_id
                                                          /\ r.day_type = g.day_type},
                             "trip_count_sched")

\* route 22 is scheduled on two weekdays of a period and observed on one of
\* them only (the file of the other day holds rows of another route): the
\* weekday row counts the scheduled trips of the observed day alone
C28_Witness ==
    \E i \in DOMAIN compare_results :
        LET feed == compare_results[i].feed
        IN  \E d1 \in DatesOf(feed), d2 \in DatesOf(feed),
               g \in DOMAIN compare_results[i].compare_by_day_type :
                 /\ d1 # d2 /\ DayTypeOf(d1) = DayTypeOf(d2) /\ g.day_type = DayTypeOf(d1)
                 /\ g.route_id = "22"
                 /\ ScheduledRows(feed, d1, "22") # {} /\ ScheduledRows(feed, d2, "22") # {}
                 /\ \E day \in period(feed) : ObservedRows(day, d1, "22") # {}
                 /\ \A day \in period(feed) : ObservedRows(day, d2, "22") = {}
                 /\ g.trip_count_sched = ScheduledOn(feed, d1, "22")
                 /\ ScheduledOn(feed, d2, "22") >= 1

----------------------------------------------------------------------------
(* Writes under BUCKET_TYPE *)

====
